---- MODULE Spec2Model ----
(***************************************************************************)
(* cronic: the per-job scheduling loop (StartJob), the overrun monitor     *)
(* (monitorJob), the executor calls (runJob) and the shutdown sequence of  *)
(* main, as a state machine over a discrete clock.                         *)
(*                                                                         *)
(* Time is a global integer clock `now`.  A Go timer (time.After) makes    *)
(* its branch of a select ready once now has reached its deadline; nothing *)
(* forces the goroutine to run at that very instant, so every step may lag *)
(* behind the clock.  A select with several ready branches takes any of    *)
(* them.                                                                   *)
(*                                                                         *)
(* One runJob call is also modelled from the inside: its pipes, the        *)
(* subprocess, the two drains (startReaderDrain) and cmd.Wait, and the     *)
(* environment it hands to the subprocess.                                 *)
(***************************************************************************)
EXTENDS Integers, Sequences, FiniteSets, TLC

\* ---- bounds of the model ----
NumJobs == 2        \* a crontab holds 1..NumJobs jobs
MaxTime == 2        \* the clock of Spec runs 0..MaxTime
OverrunTime == 4    \* the clock of SpecOverrun runs 0..OverrunTime
BacklogTime == 3    \* the clock of SpecBacklog runs 0..BacklogTime
LiveTime == 2       \* the clock of SpecLive runs 0..LiveTime and then slides
MaxFirings == 2     \* firings in one run, all jobs together
MaxPeriod == 2      \* schedules fire every 1..MaxPeriod time units
NumChars == 1       \* bytes other than the newline: 1..NumChars
MaxBytes == 3       \* a subprocess writes 0..MaxBytes bytes to a stream
NumKeys == 2        \* environment variable names: 1..NumKeys
NumVals == 2        \* environment variable values: 1..NumVals

\* the size of the drain's bufio.Reader in bytes, 64 * 1024 in the source,
\* scaled down so that lines shorter than, as long as and longer than the
\* buffer fit in MaxBytes
READ_BUFFER_SIZE == 2

\* capacity of each job's exit channel: make(chan interface{}, 1)
ExitChanCap == 1

Jobs == 1..NumJobs
Iters == 0..(MaxFirings - 1)

\* what a runJob call returns: nil, an error before the subprocess runs
\* (StdoutPipe, StderrPipe, Start), or the error of cmd.Wait
Outcomes == {"ok", "startfail", "runfail"}

VARIABLES
    now,            \* the clock
    njobs,          \* len(tab.Jobs)
    overlapping,    \* [Jobs -> BOOLEAN]: StartJob's overlapping parameter
    period,         \* [Jobs -> 1..MaxPeriod]: the job's schedule
    mainPc,         \* main: "starting", "listen", "notify", "wait", "exited"
    mainI,          \* main: index of the job the current for loop is at
    wg,             \* main's sync.WaitGroup counter
    exitChan,       \* [Jobs -> 0..ExitChanCap]: messages buffered in exitChan
    pc,             \* [Jobs -> ...]: position of the job's goroutine
    nextRun,        \* [Jobs -> Nat]
    cronIteration,  \* [Jobs -> Nat]
    fire,           \* [Jobs -> [Iters -> record]]: one record per firing:
                    \*   the closure's runJob call and its monitorJob goroutine
    err,            \* [Jobs -> ...]: line 174's err, what the closure returned
    spawned,        \* [Jobs -> SUBSET Iters]: go run(i) dispatched, not begun
    detached,       \* [Jobs -> SUBSET Iters]: go run(i) with runJob in flight
    invoked,        \* [Jobs -> Nat]: runJob calls the loop has made or dispatched
    unlogged,       \* [Jobs -> Int]: runJob calls that returned an error,
                    \*   less the jobLogger.Error records written
    skipWarns,      \* [Jobs -> Nat]: "job took too long to run" warnings

    \* one runJob call seen from the inside (lines 66-110)
    rpc,            \* position of the call: "idle", "stdoutpipe", "stderrpipe",
                    \*   "start", "drains", "cmdwait", "returned"
    ret,            \* what the call returned: "none", "nil", "err"
    proc,           \* the subprocess: "none", "running", "exited"
    exitStatus,     \* how it ended: "none", "zero", "nonzero", "signal"
    written,        \* [Chans -> bytes]: what the subprocess writes to a stream
    pipe,           \* [Chans -> bytes]: written and not yet read by the drain
    closed,         \* [Chans -> BOOLEAN]: the write end of the pipe is closed
    drain,          \* [Chans -> "none", "reading", "done"]: the drain goroutine
    drainWg,        \* runJob's sync.WaitGroup counter (line 95)
    recs,           \* [Chans -> Seq(record)]: log records of the drain of a pipe

    \* the environment of the subprocess (lines 75-79)
    epc,            \* "idle", "environ", "range", "started"
    environ,        \* os.Environ(): a sequence of <<key, value>>
    overrides,      \* cronCtx.Environ: a map from keys to values
    env,            \* line 75's env
    ranged,         \* the keys the range of line 76 has visited
    childEnv        \* what the started subprocess finds in its environment

schedVars == <<now, njobs, overlapping, period, mainPc, mainI, wg, exitChan, pc,
               nextRun, cronIteration, fire, err, spawned, detached, invoked,
               unlogged, skipWarns>>

runVars == <<rpc, ret, proc, exitStatus, written, pipe, closed, drain, drainWg,
             recs>>

envVars == <<epc, environ, overrides, env, ranged, childEnv>>

vars == <<schedVars, runVars, envVars>>

\* ---- the schedule ----

\* crontab.Expression.Next for a schedule that fires at every multiple of p:
\* the first fire time strictly after t
ExprNext(p, t) == ((t \div p) + 1) * p

\* the n-th fire time after t
RECURSIVE NthNext(_, _, _)
NthNext(p, t, n) == IF n = 0 THEN t ELSE NthNext(p, ExprNext(p, t), n - 1)

\* ---- one firing ----

NoFire == [st |-> "none", t0 |-> 0, startAt |-> 0, cancelled |-> FALSE,
           alive |-> FALSE, t |-> 0, log |-> <<>>]

\* lines 174-180: ctx, cancel := WithCancel; go monitorJob(ctx, expr, nextRun);
\* runJob(...) begins.  monitorJob starts with t = expression.Next(t0).
NewFire(p, t0, at) ==
    [st |-> "running", t0 |-> t0, startAt |-> at, cancelled |-> FALSE,
     alive |-> TRUE, t |-> ExprNext(p, t0), log |-> <<>>]

\* a mutant: the cancel is skipped when runJob returned an error
CancelOnlyOnSuccess(f, out) ==
    [f EXCEPT !.st = "returned", !.cancelled = (out = "ok")]

\* lines 176, 180-181: runJob returns out, the deferred cancel() runs
CloseFire(f, out) ==
    [f EXCEPT !.st = "returned", !.cancelled = TRUE]

\* ---- monitorJob ----

\* a mutant: the timer fires one time unit early
TimerReadyEarly(f) == now + 1 >= f.t

\* line 119: <-time.After(time.Until(t)) is ready
TimerReady(f) == now >= f.t

\* line 121: <-ctx.Done() is ready
CtxDone(f) == f.cancelled

\* a mutant: the next schedule point is computed from t0, not from t
WarnFromT0(p, f) ==
    [f EXCEPT !.log = Append(@, [pt |-> f.t, late |-> f.cancelled]),
              !.t = ExprNext(p, f.t0)]

\* lines 116, 120: the warning for t, then t = expression.Next(t)
Warn(p, f) ==
    [f EXCEPT !.log = Append(@, [pt |-> f.t, late |-> f.cancelled]),
              !.t = ExprNext(p, f.t)]

MonitorWarn(j, k) ==
    /\ mainPc # "exited"
    /\ fire[j][k].alive
    /\ TimerReady(fire[j][k])
    /\ fire' = [fire EXCEPT ![j][k] = Warn(period[j], @)]
    /\ UNCHANGED <<runVars, envVars, skipWarns>>
    /\ UNCHANGED <<now, njobs, overlapping, period, mainPc, mainI, wg, exitChan, pc,
                   nextRun, cronIteration, err, spawned, detached,
                   invoked, unlogged>>

MonitorReturn(j, k) ==
    /\ mainPc # "exited"
    /\ fire[j][k].alive
    /\ CtxDone(fire[j][k])
    /\ fire' = [fire EXCEPT ![j][k].alive = FALSE]
    /\ UNCHANGED <<runVars, envVars, skipWarns>>
    /\ UNCHANGED <<now, njobs, overlapping, period, mainPc, mainI, wg, exitChan, pc,
                   nextRun, cronIteration, err, spawned, detached,
                   invoked, unlogged>>

\* ---- StartJob: the job's goroutine ----

\* runJob calls of job j that are in flight
InFlight(j) ==
    (IF pc[j] \in {"monitored", "run"} THEN 1 ELSE 0) + Cardinality(detached[j])

\* runJob calls of job j that have begun
Started(j) == invoked[j] - Cardinality(spawned[j])

\* 1 when a runJob call returned an error
Failed(out) == IF out = "ok" THEN 0 ELSE 1

\* lines 167-171: run writes one Error record when err != nil
Logged(out) == IF out = "ok" THEN 0 ELSE 1

\* lines 131-135: the goroutine starts; nextRun := time.Now()
JobBegin(j) ==
    /\ mainPc # "exited"
    /\ pc[j] = "begin"
    /\ nextRun' = [nextRun EXCEPT ![j] = now]
    /\ pc' = [pc EXCEPT ![j] = "compute"]
    /\ UNCHANGED <<runVars, envVars, skipWarns>>
    /\ UNCHANGED <<now, njobs, overlapping, period, mainPc, mainI, wg, exitChan,
                   cronIteration, fire, err, spawned, detached, invoked,
                   unlogged>>

\* a mutant: a fire time in the past is skipped under either policy
SkippedWhenLate(j, delay) == delay < 0

\* a mutant: a fire time in the past is never skipped
NeverSkipped(j, delay) == FALSE

\* line 146: delay < 0 && !overlapping
SkipMissed(j, delay) == delay < 0 /\ ~overlapping[j]

\* lines 140-150: nextRun = Next(nextRun); delay = nextRun - now; a negative
\* delay under serial policy logs "job took too long to run", resets nextRun
\* to now and starts the loop again
Compute(j) ==
    /\ mainPc # "exited"
    /\ pc[j] = "compute"
    /\ LET nr == ExprNext(period[j], nextRun[j])
       IN  IF SkipMissed(j, nr - now)
           THEN /\ skipWarns' = [skipWarns EXCEPT ![j] = @ + 1]
                /\ nextRun' = [nextRun EXCEPT ![j] = now]
                /\ pc' = pc
           ELSE /\ nextRun' = [nextRun EXCEPT ![j] = nr]
                /\ pc' = [pc EXCEPT ![j] = "select"]
                /\ UNCHANGED skipWarns
    /\ UNCHANGED <<runVars, envVars>>
    /\ UNCHANGED <<now, njobs, overlapping, period, mainPc, mainI, wg, exitChan,
                   cronIteration, fire, err, spawned, detached, invoked,
                   unlogged>>

\* a mutant: the exit branch leaves the select but not the loop
ExitBranchContinues == "compute"

\* line 155: return
ExitBranch == "stopped"

\* lines 153-155 (and the deferred wg.Done of line 132)
SelectExit(j) ==
    /\ mainPc # "exited"
    /\ pc[j] = "select"
    /\ exitChan[j] > 0
    /\ exitChan' = [exitChan EXCEPT ![j] = @ - 1]
    /\ pc' = [pc EXCEPT ![j] = ExitBranch]
    /\ wg' = IF ExitBranch = "stopped" THEN wg - 1 ELSE wg
    /\ UNCHANGED <<runVars, envVars, skipWarns>>
    /\ UNCHANGED <<now, njobs, overlapping, period, mainPc, mainI, nextRun,
                   cronIteration, fire, err, spawned, detached, invoked,
                   unlogged>>

\* firings so far
Firings ==
    Cardinality({x \in Jobs \X Iters : fire[x[1]][x[2]].st # "none"})

\* lines 156, 174-180: the timer branch; the closure creates the context,
\* starts monitorJob and calls runJob
SelectTimer(j) ==
    /\ mainPc # "exited"
    /\ pc[j] = "select"
    /\ now >= nextRun[j]
    /\ Firings < MaxFirings
    /\ fire' = [fire EXCEPT ![j][cronIteration[j]] =
                                NewFire(period[j], nextRun[j], now)]
    /\ invoked' = [invoked EXCEPT ![j] = @ + 1]
    /\ pc' = [pc EXCEPT ![j] = "monitored"]
    /\ UNCHANGED <<runVars, envVars, skipWarns>>
    /\ UNCHANGED <<now, njobs, overlapping, period, mainPc, mainI, wg, exitChan,
                   nextRun, cronIteration, err, spawned, detached,
                   unlogged>>

\* a mutant: run is always dispatched with go
DetachAlways(j) == TRUE

\* line 183: if overlapping
Detach(j) == overlapping[j]

\* lines 180-189: the closure's runJob returns out (which is assigned to err
\* and never read), cancel() runs; then go run(cronIteration) and
\* cronIteration++ under overlapping, else run(cronIteration) is called
MonitoredReturn(j, out) ==
    /\ mainPc # "exited"
    /\ pc[j] = "monitored"
    /\ fire' = [fire EXCEPT ![j][cronIteration[j]] = CloseFire(@, out)]
    /\ err' = [err EXCEPT ![j] = out]
    /\ unlogged' = [unlogged EXCEPT ![j] = @ + Failed(out)]
    /\ invoked' = [invoked EXCEPT ![j] = @ + 1]
    /\ IF Detach(j)
       THEN /\ spawned' = [spawned EXCEPT ![j] = @ \cup {cronIteration[j]}]
            /\ cronIteration' = [cronIteration EXCEPT ![j] = @ + 1]
            /\ pc' = [pc EXCEPT ![j] = "compute"]
       ELSE /\ pc' = [pc EXCEPT ![j] = "run"]
            /\ UNCHANGED <<spawned, cronIteration>>
    /\ UNCHANGED <<runVars, envVars, skipWarns>>
    /\ UNCHANGED <<now, njobs, overlapping, period, mainPc, mainI, wg, exitChan,
                   nextRun, detached>>

\* a mutant: the loop gives up when the job failed
StopOnError(out) == IF out = "ok" THEN "compute" ELSE "stopped"

\* lines 167-171, 189-190: run logs the result and returns, cronIteration++,
\* and the for loop starts again
AfterRun(out) == "compute"

\* lines 165-171, 186-189: the runJob call of run(cronIteration) returns out
RunReturn(j, out) ==
    /\ mainPc # "exited"
    /\ pc[j] = "run"
    /\ unlogged' = [unlogged EXCEPT ![j] = @ + Failed(out) - Logged(out)]
    /\ cronIteration' = [cronIteration EXCEPT ![j] = @ + 1]
    /\ pc' = [pc EXCEPT ![j] = AfterRun(out)]
    /\ wg' = IF AfterRun(out) = "stopped" THEN wg - 1 ELSE wg
    /\ UNCHANGED <<runVars, envVars, skipWarns>>
    /\ UNCHANGED <<now, njobs, overlapping, period, mainPc, mainI, exitChan, nextRun,
                   fire, err, spawned, detached, invoked>>

\* lines 160-165, 184: the goroutine of go run(i) begins its runJob call
DetachedStart(j, i) ==
    /\ mainPc # "exited"
    /\ i \in spawned[j]
    /\ spawned' = [spawned EXCEPT ![j] = @ \ {i}]
    /\ detached' = [detached EXCEPT ![j] = @ \cup {i}]
    /\ UNCHANGED <<runVars, envVars, skipWarns>>
    /\ UNCHANGED <<now, njobs, overlapping, period, mainPc, mainI, wg, exitChan, pc,
                   nextRun, cronIteration, fire, err, invoked, unlogged>>

\* lines 165-171: the runJob call of a detached run(i) returns out
DetachedReturn(j, i, out) ==
    /\ mainPc # "exited"
    /\ i \in detached[j]
    /\ detached' = [detached EXCEPT ![j] = @ \ {i}]
    /\ unlogged' = [unlogged EXCEPT ![j] = @ + Failed(out) - Logged(out)]
    /\ UNCHANGED <<runVars, envVars, skipWarns>>
    /\ UNCHANGED <<now, njobs, overlapping, period, mainPc, mainI, wg, exitChan, pc,
                   nextRun, cronIteration, fire, err, spawned, invoked>>

\* ---- runJob from the inside: pipes, subprocess, drains ----

\* the two streams of a subprocess; a drain is named by the pipe it reads
Chans == {"stdout", "stderr"}

\* the newline byte
NL == 0

\* what a subprocess can write to one stream
Streams == UNION {[1..n -> 0..NumChars] : n \in 0..MaxBytes}

\* bufio.Reader.ReadLine on the unread bytes p of a pipe whose write end is
\* closed or not (eof): the line up to a newline that is within the buffer,
\* without the newline; else a full buffer with isPrefix set; else, at end
\* of file, the rest, or io.EOF when nothing is left; else it blocks
ReadLine(p, eof) ==
    LET nls == {i \in 1..Len(p) : p[i] = NL}
        first == CHOOSE i \in nls : \A k \in nls : i <= k
    IN  IF nls # {} /\ first <= READ_BUFFER_SIZE
        THEN [ready |-> TRUE, err |-> "nil", line |-> SubSeq(p, 1, first - 1),
              isPrefix |-> FALSE, rest |-> SubSeq(p, first + 1, Len(p))]
        ELSE IF Len(p) >= READ_BUFFER_SIZE
        THEN [ready |-> TRUE, err |-> "nil",
              line |-> SubSeq(p, 1, READ_BUFFER_SIZE),
              isPrefix |-> TRUE,
              rest |-> SubSeq(p, READ_BUFFER_SIZE + 1, Len(p))]
        ELSE IF ~eof
        THEN [ready |-> FALSE, err |-> "nil", line |-> <<>>,
              isPrefix |-> FALSE, rest |-> p]
        ELSE IF Len(p) = 0
        THEN [ready |-> TRUE, err |-> "EOF", line |-> <<>>,
              isPrefix |-> FALSE, rest |-> p]
        ELSE [ready |-> TRUE, err |-> "nil", line |-> p,
              isPrefix |-> FALSE, rest |-> <<>>]

\* lines 97-101: the channel field of the logger handed to the drain of r
LoggerOf(r) == r

\* a mutant: the part of a line that filled the buffer is only warned about
PrefixNotLogged(ch, line, isPrefix) ==
    IF isPrefix
    THEN <<[channel |-> ch, level |-> "warning", line |-> <<>>]>>
    ELSE <<[channel |-> ch, level |-> "info", line |-> line]>>

\* lines 57-61: Info(string(line)), and the warning when isPrefix
LineRecords(ch, line, isPrefix) ==
    <<[channel |-> ch, level |-> "info", line |-> line]>> \o
    (IF isPrefix
     THEN <<[channel |-> ch, level |-> "warning", line |-> <<>>]>>
     ELSE <<>>)

\* the record of readerLogger.Errorf
ErrorRecord(ch) == [channel |-> ch, level |-> "error", line |-> <<>>]

\* lines 29-34, 54: the drain leaves its loop having logged pre; the
\* deferred function closes the reader, logs a failure to do so, and calls
\* wg.Done()
DrainEnd(r, how, pre, closeOk) ==
    /\ drain' = [drain EXCEPT ![r] = how]
    /\ drainWg' = drainWg - 1
    /\ recs' = [recs EXCEPT ![r] = @ \o pre \o
                    (IF closeOk THEN <<>> ELSE <<ErrorRecord(LoggerOf(r))>>)]
    /\ UNCHANGED <<rpc, ret, proc, exitStatus, written, pipe, closed>>
    /\ UNCHANGED <<schedVars, envVars>>

\* lines 38-61: one turn of the drain's loop: ReadLine returns a line or a
\* part of one, which is logged, or io.EOF, which ends the drain unlogged
DrainRead(r, closeOk) ==
    /\ drain[r] = "reading"
    /\ LET x == ReadLine(pipe[r], closed[r])
       IN  /\ x.ready
           /\ IF x.err = "EOF"
              THEN DrainEnd(r, "done", <<>>, closeOk)
              ELSE /\ recs' = [recs EXCEPT ![r] =
                          @ \o LineRecords(LoggerOf(r), x.line, x.isPrefix)]
                   /\ pipe' = [pipe EXCEPT ![r] = x.rest]
                   /\ UNCHANGED <<rpc, ret, proc, exitStatus, written,
                                  closed, drain, drainWg>>
                   /\ UNCHANGED <<schedVars, envVars>>

\* lines 41-54: ReadLine fails with another error than io.EOF: it is logged
\* unless it is os.ErrClosed, and the drain ends with bytes unread
DrainFail(r, logged, closeOk) ==
    /\ drain[r] = "reading"
    /\ DrainEnd(r, "failed",
                IF logged THEN <<ErrorRecord(LoggerOf(r))>> ELSE <<>>, closeOk)

\* lines 81-84: cmd.StdoutPipe()
StdoutPipe(ok) ==
    /\ rpc = "stdoutpipe"
    /\ rpc' = IF ok THEN "stderrpipe" ELSE "returned"
    /\ ret' = IF ok THEN ret ELSE "err"
    /\ UNCHANGED <<proc, exitStatus, written, pipe, closed, drain, drainWg, recs>>
    /\ UNCHANGED <<schedVars, envVars>>

\* lines 86-89: cmd.StderrPipe()
StderrPipe(ok) ==
    /\ rpc = "stderrpipe"
    /\ rpc' = IF ok THEN "start" ELSE "returned"
    /\ ret' = IF ok THEN ret ELSE "err"
    /\ UNCHANGED <<proc, exitStatus, written, pipe, closed, drain, drainWg, recs>>
    /\ UNCHANGED <<schedVars, envVars>>

\* lines 91-93: cmd.Start(); the subprocess runs and writes its output
CmdStart(ok) ==
    /\ rpc = "start"
    /\ rpc' = IF ok THEN "drains" ELSE "returned"
    /\ ret' = IF ok THEN ret ELSE "err"
    /\ proc' = IF ok THEN "running" ELSE proc
    /\ pipe' = IF ok THEN written ELSE pipe
    /\ UNCHANGED <<exitStatus, written, closed, drain, drainWg, recs>>
    /\ UNCHANGED <<schedVars, envVars>>

\* lines 25-28, 97-101: startReaderDrain for stdout, then for stderr:
\* wg.Add(1) and the goroutine
StartReaderDrain(r) ==
    /\ rpc = "drains"
    /\ drain[r] = "none"
    /\ r = "stderr" => drain["stdout"] # "none"
    /\ drain' = [drain EXCEPT ![r] = "reading"]
    /\ drainWg' = drainWg + 1
    /\ UNCHANGED <<rpc, ret, proc, exitStatus, written, pipe, closed, recs>>
    /\ UNCHANGED <<schedVars, envVars>>

\* a mutant: runJob does not wait for the drains
DrainsNotJoined == TRUE

\* line 103: wg.Wait() returns
DrainsJoined == drainWg = 0

\* line 103: runJob goes on to cmd.Wait()
DrainsWait ==
    /\ rpc = "drains"
    /\ \A r \in Chans : drain[r] # "none"
    /\ DrainsJoined
    /\ rpc' = "cmdwait"
    /\ UNCHANGED <<ret, proc, exitStatus, written, pipe, closed, drain, drainWg,
                   recs>>
    /\ UNCHANGED <<schedVars, envVars>>

\* lines 105-109: the error of cmd.Wait() is wrapped and returned, else nil
WaitResult(st) == IF st = "zero" THEN "nil" ELSE "err"

\* lines 105-109: cmd.Wait() returns once the subprocess has terminated
CmdWait ==
    /\ rpc = "cmdwait"
    /\ proc = "exited"
    /\ ret' = WaitResult(exitStatus)
    /\ rpc' = "returned"
    /\ UNCHANGED <<proc, exitStatus, written, pipe, closed, drain, drainWg, recs>>
    /\ UNCHANGED <<schedVars, envVars>>

\* the subprocess closes its end of a stream
ChildClose(r) ==
    /\ proc = "running"
    /\ ~closed[r]
    /\ closed' = [closed EXCEPT ![r] = TRUE]
    /\ UNCHANGED <<rpc, ret, proc, exitStatus, written, pipe, drain, drainWg,
                   recs>>
    /\ UNCHANGED <<schedVars, envVars>>

\* the subprocess terminates, which closes its ends of both streams
ChildExit(st) ==
    /\ proc = "running"
    /\ proc' = "exited"
    /\ exitStatus' = st
    /\ closed' = [r \in Chans |-> TRUE]
    /\ UNCHANGED <<rpc, ret, written, pipe, drain, drainWg, recs>>
    /\ UNCHANGED <<schedVars, envVars>>

\* no runJob call is looked into
RunIdle ==
    /\ rpc = "idle"
    /\ ret = "none"
    /\ proc = "none"
    /\ exitStatus = "none"
    /\ written = [r \in Chans |-> <<>>]
    /\ pipe = [r \in Chans |-> <<>>]
    /\ closed = [r \in Chans |-> FALSE]
    /\ drain = [r \in Chans |-> "none"]
    /\ drainWg = 0
    /\ recs = [r \in Chans |-> <<>>]

\* ---- the environment of the subprocess ----

Keys == 1..NumKeys
Vals == 1..NumVals

\* the maps from some of the keys to values
Maps == UNION {[D -> Vals] : D \in SUBSET Keys}

\* the entries "k=v" of a map, as pairs, in the order of the keys
AsList(m) ==
    CHOOSE e \in [1..Cardinality(DOMAIN m) -> Keys \X Vals] :
        /\ \A i \in DOMAIN e : e[i][1] \in DOMAIN m /\ e[i][2] = m[e[i][1]]
        /\ \A i, k \in DOMAIN e : i < k => e[i][1] < e[k][1]

\* the keys of a list of entries
KeysOf(e) == {e[i][1] : i \in DOMAIN e}

\* the value of key k in a list of entries as os/exec hands it to the
\* subprocess: of several entries with one key the last one is used; 0 when
\* the key has no entry
Getenv(e, k) ==
    IF k \in KeysOf(e)
    THEN LET last == CHOOSE i \in DOMAIN e :
                         e[i][1] = k /\ \A n \in DOMAIN e : e[n][1] = k => n <= i
         IN  e[last][2]
    ELSE 0

\* a mutant: the entry is put in front of the list
Prepended(e, k, v) == <<<<k, v>>>> \o e

\* line 77: env = append(env, fmt.Sprintf("%s=%s", k, v))
Appended(e, k, v) == Append(e, <<k, v>>)

\* line 75: env := os.Environ()
EnvCopy ==
    /\ epc = "environ"
    /\ env' = environ
    /\ epc' = "range"
    /\ UNCHANGED <<environ, overrides, ranged, childEnv>>
    /\ UNCHANGED <<schedVars, runVars>>

\* lines 76-78: one turn of the range over cronCtx.Environ, in any order
EnvAppend(k) ==
    /\ epc = "range"
    /\ k \in DOMAIN overrides \ ranged
    /\ env' = Appended(env, k, overrides[k])
    /\ ranged' = ranged \cup {k}
    /\ UNCHANGED <<epc, environ, overrides, childEnv>>
    /\ UNCHANGED <<schedVars, runVars>>

\* lines 79, 91: cmd.Env = env and cmd.Start(): the subprocess gets env
EnvStart ==
    /\ epc = "range"
    /\ ranged = DOMAIN overrides
    /\ childEnv' = [k \in Keys |-> Getenv(env, k)]
    /\ epc' = "started"
    /\ UNCHANGED <<environ, overrides, env, ranged>>
    /\ UNCHANGED <<schedVars, runVars>>

\* no environment is looked into
EnvIdle ==
    /\ epc = "idle"
    /\ environ = <<>>
    /\ overrides = <<>>
    /\ env = <<>>
    /\ ranged = {}
    /\ childEnv = <<>>

\* ---- main ----

\* main.go lines 56-67 with StartJob lines 129-131: make the exit channel,
\* wg.Add(1), start the goroutine
StartJob(j) ==
    /\ mainPc = "starting"
    /\ mainI = j
    /\ wg' = wg + 1
    /\ pc' = [pc EXCEPT ![j] = "begin"]
    /\ mainI' = IF j = njobs THEN 1 ELSE j + 1
    /\ mainPc' = IF j = njobs THEN "listen" ELSE "starting"
    /\ UNCHANGED <<runVars, envVars, skipWarns>>
    /\ UNCHANGED <<now, njobs, overlapping, period, exitChan, nextRun, cronIteration,
                   fire, err, spawned, detached, invoked, unlogged>>

\* main.go lines 72-74: termSig := <-termChan
ReceiveTerm ==
    /\ mainPc = "listen"
    /\ mainPc' = "notify"
    /\ UNCHANGED <<runVars, envVars, skipWarns>>
    /\ UNCHANGED <<now, njobs, overlapping, period, mainI, wg, exitChan, pc, nextRun,
                   cronIteration, fire, err, spawned, detached, invoked,
                   unlogged>>

\* a mutant: a send that never waits for room in the channel
SendNeverBlocks(j) == TRUE

\* main.go line 76: c <- true can proceed: the channel has room
CanSend(j) == exitChan[j] < ExitChanCap

\* main.go lines 75-77: one pass of the for loop, c <- true, which blocks
\* while the channel is full; after the last channel the sender goes on to
\* `after`
Send(j, after) ==
    /\ mainI = j
    /\ CanSend(j)
    /\ exitChan' = [exitChan EXCEPT ![j] = @ + 1]
    /\ mainI' = IF j = njobs THEN 1 ELSE j + 1
    /\ mainPc' = IF j = njobs THEN after ELSE mainPc
    /\ UNCHANGED <<runVars, envVars, skipWarns>>
    /\ UNCHANGED <<now, njobs, overlapping, period, wg, pc, nextRun, cronIteration,
                   fire, err, spawned, detached, invoked, unlogged>>

\* main.go lines 75-80: main sends to every exit channel, then waits
Notify(j) ==
    /\ mainPc = "notify"
    /\ Send(j, "wait")

\* a caller of StartJob that sends the stop signal to every exit channel a
\* second time: the first pass over the channels
NotifyFirst(j) ==
    /\ mainPc = "notify"
    /\ Send(j, "renotify")

\* the second pass over the channels, then the wait of main.go line 80
NotifyAgain(j) ==
    /\ mainPc = "renotify"
    /\ Send(j, "wait")

\* a mutant: main does not wait for the jobs
WaitSkipped == TRUE

\* a mutant: the join also covers the goroutines of go run(i)
WaitCoversDetached ==
    wg = 0 /\ \A j \in Jobs : spawned[j] = {} /\ detached[j] = {}

\* main.go line 80: wg.Wait() returns
WgWaitDone == wg = 0

\* main.go lines 80-83: main returns and the process exits
Exit ==
    /\ mainPc = "wait"
    /\ WgWaitDone
    /\ mainPc' = "exited"
    /\ UNCHANGED <<runVars, envVars, skipWarns>>
    /\ UNCHANGED <<now, njobs, overlapping, period, mainI, wg, exitChan, pc, nextRun,
                   cronIteration, fire, err, spawned, detached, invoked,
                   unlogged>>

\* ---- the clock ----

Tick ==
    /\ mainPc # "exited"
    /\ now < MaxTime
    /\ now' = now + 1
    /\ UNCHANGED <<runVars, envVars, skipWarns>>
    /\ UNCHANGED <<njobs, overlapping, period, mainPc, mainI, wg, exitChan, pc,
                   nextRun, cronIteration, fire, err, spawned, detached,
                   invoked, unlogged>>

TickOverrun ==
    /\ mainPc # "exited"
    /\ now < OverrunTime
    /\ now' = now + 1
    /\ UNCHANGED <<runVars, envVars, skipWarns>>
    /\ UNCHANGED <<njobs, overlapping, period, mainPc, mainI, wg, exitChan, pc,
                   nextRun, cronIteration, fire, err, spawned, detached,
                   invoked, unlogged>>

TickBacklog ==
    /\ mainPc # "exited"
    /\ now < BacklogTime
    /\ now' = now + 1
    /\ UNCHANGED <<runVars, envVars, skipWarns>>
    /\ UNCHANGED <<njobs, overlapping, period, mainPc, mainI, wg, exitChan, pc,
                   nextRun, cronIteration, fire, err, spawned, detached,
                   invoked, unlogged>>

\* ---- the loop without its counters and logs, over unbounded time ----

\* The actions below are those of StartJob's loop with cronIteration, the
\* log records and the monitors left out, none of which the loop's control
\* flow reads, so that a run can fire without end in finitely many states.
\* Jobs fire at every time unit.  Once the clock has reached LiveTime it
\* stays there and every stored time moves back by one unit instead, which
\* is the same for a schedule of period 1; a nextRun further in the past
\* than the window stays at 0.

\* lines 140-150, as Compute
LiveCompute(j) ==
    /\ mainPc # "exited"
    /\ pc[j] = "compute"
    /\ LET nr == ExprNext(period[j], nextRun[j])
       IN  IF SkipMissed(j, nr - now)
           THEN /\ nextRun' = [nextRun EXCEPT ![j] = now]
                /\ pc' = pc
           ELSE /\ nextRun' = [nextRun EXCEPT ![j] = nr]
                /\ pc' = [pc EXCEPT ![j] = "select"]
    /\ UNCHANGED <<runVars, envVars, skipWarns>>
    /\ UNCHANGED <<now, njobs, overlapping, period, mainPc, mainI, wg, exitChan,
                   cronIteration, fire, err, spawned, detached, invoked,
                   unlogged>>

\* lines 156, 174-180, as SelectTimer
LiveSelectTimer(j) ==
    /\ mainPc # "exited"
    /\ pc[j] = "select"
    /\ now >= nextRun[j]
    /\ pc' = [pc EXCEPT ![j] = "monitored"]
    /\ UNCHANGED <<runVars, envVars, skipWarns>>
    /\ UNCHANGED <<now, njobs, overlapping, period, mainPc, mainI, wg, exitChan,
                   nextRun, cronIteration, fire, err, spawned, detached,
                   invoked, unlogged>>

\* lines 180-189, as MonitoredReturn: the closure's runJob call returns
LiveMonitoredReturn(j) ==
    /\ mainPc # "exited"
    /\ pc[j] = "monitored"
    /\ pc' = [pc EXCEPT ![j] = IF Detach(j) THEN "compute" ELSE "run"]
    /\ UNCHANGED <<runVars, envVars, skipWarns>>
    /\ UNCHANGED <<now, njobs, overlapping, period, mainPc, mainI, wg, exitChan,
                   nextRun, cronIteration, fire, err, spawned, detached,
                   invoked, unlogged>>

\* lines 165-171, 186-189, as RunReturn: run's runJob call returns
LiveRunReturn(j) ==
    /\ mainPc # "exited"
    /\ pc[j] = "run"
    /\ pc' = [pc EXCEPT ![j] = "compute"]
    /\ UNCHANGED <<runVars, envVars, skipWarns>>
    /\ UNCHANGED <<now, njobs, overlapping, period, mainPc, mainI, wg, exitChan,
                   nextRun, cronIteration, fire, err, spawned, detached,
                   invoked, unlogged>>

\* the clock of SpecLive
LiveTick ==
    /\ mainPc # "exited"
    /\ IF now < LiveTime
       THEN /\ now' = now + 1
            /\ UNCHANGED nextRun
       ELSE /\ now' = now
            /\ nextRun' = [j \in Jobs |->
                             IF nextRun[j] > 0 THEN nextRun[j] - 1 ELSE 0]
    /\ UNCHANGED <<runVars, envVars, skipWarns>>
    /\ UNCHANGED <<njobs, overlapping, period, mainPc, mainI, wg, exitChan, pc,
                   cronIteration, fire, err, spawned, detached, invoked,
                   unlogged>>

\* ---- the specifications ----

\* main.go lines 51-54 and StartJob's locals before any job is started
Fresh ==
    /\ now = 0
    /\ mainPc = "starting"
    /\ mainI = 1
    /\ wg = 0
    /\ exitChan = [j \in Jobs |-> 0]
    /\ pc = [j \in Jobs |-> "unstarted"]
    /\ nextRun = [j \in Jobs |-> 0]
    /\ cronIteration = [j \in Jobs |-> 0]
    /\ fire = [j \in Jobs |-> [k \in Iters |-> NoFire]]
    /\ err = [j \in Jobs |-> "none"]
    /\ spawned = [j \in Jobs |-> {}]
    /\ detached = [j \in Jobs |-> {}]
    /\ invoked = [j \in Jobs |-> 0]
    /\ unlogged = [j \in Jobs |-> 0]
    /\ skipWarns = [j \in Jobs |-> 0]

\* any crontab of 1..NumJobs jobs, each with either overlap policy
Init ==
    /\ njobs \in 1..NumJobs
    /\ overlapping \in [Jobs -> BOOLEAN]
    /\ period \in [Jobs -> 1..MaxPeriod]
    /\ Fresh
    /\ RunIdle
    /\ EnvIdle

\* what the goroutines of the jobs, of their monitors and of main do
Steps ==
    \/ ReceiveTerm
    \/ Exit
    \/ \E j \in Jobs : StartJob(j)
    \/ \E j \in Jobs : Notify(j)
    \/ \E j \in Jobs : JobBegin(j)
    \/ \E j \in Jobs : Compute(j)
    \/ \E j \in Jobs : SelectExit(j)
    \/ \E j \in Jobs : SelectTimer(j)
    \/ \E j \in Jobs, out \in Outcomes : MonitoredReturn(j, out)
    \/ \E j \in Jobs, out \in Outcomes : RunReturn(j, out)
    \/ \E j \in Jobs, k \in Iters : MonitorWarn(j, k)
    \/ \E j \in Jobs, k \in Iters : MonitorReturn(j, k)

Next ==
    \/ Tick
    \/ Steps
    \/ \E j \in Jobs, i \in Iters : DetachedStart(j, i)
    \/ \E j \in Jobs, i \in Iters, out \in Outcomes : DetachedReturn(j, i, out)

Spec == Init /\ [][Next]_vars

\* one job under serial policy, observed over a longer time
InitOverrun ==
    /\ njobs = 1
    /\ overlapping = [j \in Jobs |-> FALSE]
    /\ period \in [Jobs -> 1..MaxPeriod]
    /\ Fresh
    /\ RunIdle
    /\ EnvIdle

NextOverrun ==
    \/ TickOverrun
    \/ Steps

SpecOverrun == InitOverrun /\ [][NextOverrun]_vars

\* one job under concurrent policy, observed over a longer time
InitBacklog ==
    /\ njobs = 1
    /\ overlapping = [j \in Jobs |-> TRUE]
    /\ period \in [Jobs -> 1..MaxPeriod]
    /\ Fresh
    /\ RunIdle
    /\ EnvIdle

NextBacklog ==
    \/ TickBacklog
    \/ ReceiveTerm
    \/ Exit
    \/ \E j \in Jobs : StartJob(j)
    \/ \E j \in Jobs : Notify(j)
    \/ \E j \in Jobs : JobBegin(j)
    \/ \E j \in Jobs : Compute(j)
    \/ \E j \in Jobs : SelectExit(j)
    \/ \E j \in Jobs : SelectTimer(j)
    \/ \E j \in Jobs, out \in Outcomes : MonitoredReturn(j, out)
    \/ \E j \in Jobs, k \in Iters : MonitorWarn(j, k)
    \/ \E j \in Jobs, k \in Iters : MonitorReturn(j, k)
    \/ \E j \in Jobs, i \in Iters : DetachedStart(j, i)
    \/ \E j \in Jobs, i \in Iters, out \in Outcomes : DetachedReturn(j, i, out)

SpecBacklog == InitBacklog /\ [][NextBacklog]_vars

\* one job of either policy whose caller delivers the stop signal twice
InitTwice ==
    /\ njobs = 1
    /\ overlapping \in [Jobs -> BOOLEAN]
    /\ period \in [Jobs -> 1..MaxPeriod]
    /\ Fresh
    /\ RunIdle
    /\ EnvIdle

NextTwice ==
    \/ Tick
    \/ ReceiveTerm
    \/ Exit
    \/ \E j \in Jobs : StartJob(j)
    \/ \E j \in Jobs : NotifyFirst(j)
    \/ \E j \in Jobs : NotifyAgain(j)
    \/ \E j \in Jobs : JobBegin(j)
    \/ \E j \in Jobs : Compute(j)
    \/ \E j \in Jobs : SelectExit(j)
    \/ \E j \in Jobs : SelectTimer(j)
    \/ \E j \in Jobs, out \in Outcomes : MonitoredReturn(j, out)
    \/ \E j \in Jobs, out \in Outcomes : RunReturn(j, out)
    \/ \E j \in Jobs, k \in Iters : MonitorWarn(j, k)
    \/ \E j \in Jobs, k \in Iters : MonitorReturn(j, k)
    \/ \E j \in Jobs, i \in Iters : DetachedStart(j, i)
    \/ \E j \in Jobs, i \in Iters, out \in Outcomes : DetachedReturn(j, i, out)

SpecTwice == InitTwice /\ [][NextTwice]_vars

\* the scheduler before any job is started
SchedIdle ==
    /\ njobs = 1
    /\ overlapping = [j \in Jobs |-> FALSE]
    /\ period = [j \in Jobs |-> 1]
    /\ Fresh

\* one runJob call, past line 79, of a command that writes any bytes to
\* its two streams
InitRun ==
    /\ SchedIdle
    /\ EnvIdle
    /\ rpc = "stdoutpipe"
    /\ ret = "none"
    /\ proc = "none"
    /\ exitStatus = "none"
    /\ written \in [Chans -> Streams]
    /\ pipe = [r \in Chans |-> <<>>]
    /\ closed = [r \in Chans |-> FALSE]
    /\ drain = [r \in Chans |-> "none"]
    /\ drainWg = 0
    /\ recs = [r \in Chans |-> <<>>]

NextRunJob ==
    \/ \E ok \in BOOLEAN : StdoutPipe(ok)
    \/ \E ok \in BOOLEAN : StderrPipe(ok)
    \/ \E ok \in BOOLEAN : CmdStart(ok)
    \/ \E r \in Chans : StartReaderDrain(r)
    \/ \E r \in Chans, closeOk \in BOOLEAN : DrainRead(r, closeOk)
    \/ \E r \in Chans, logged, closeOk \in BOOLEAN : DrainFail(r, logged, closeOk)
    \/ DrainsWait
    \/ CmdWait
    \/ \E r \in Chans : ChildClose(r)
    \/ \E st \in {"zero", "nonzero", "signal"} : ChildExit(st)

SpecRun == InitRun /\ [][NextRunJob]_vars

\* lines 75-79 of one runJob call, for any environment of the supervisor
\* and any overrides of the crontab
InitEnv ==
    /\ SchedIdle
    /\ RunIdle
    /\ epc = "environ"
    /\ environ \in {AsList(m) : m \in Maps}
    /\ overrides \in Maps
    /\ env = <<>>
    /\ ranged = {}
    /\ childEnv = <<>>

NextEnv ==
    \/ EnvCopy
    \/ \E k \in Keys : EnvAppend(k)
    \/ EnvStart

SpecEnv == InitEnv /\ [][NextEnv]_vars

\* any crontab of 1..NumJobs jobs of either policy that fire at every time
\* unit
InitLive ==
    /\ njobs \in 1..NumJobs
    /\ overlapping \in [Jobs -> BOOLEAN]
    /\ period = [j \in Jobs |-> 1]
    /\ Fresh
    /\ RunIdle
    /\ EnvIdle

NextLive ==
    \/ LiveTick
    \/ ReceiveTerm
    \/ Exit
    \/ \E j \in Jobs : StartJob(j)
    \/ \E j \in Jobs : Notify(j)
    \/ \E j \in Jobs : JobBegin(j)
    \/ \E j \in Jobs : LiveCompute(j)
    \/ \E j \in Jobs : SelectExit(j)
    \/ \E j \in Jobs : LiveSelectTimer(j)
    \/ \E j \in Jobs : LiveMonitoredReturn(j)
    \/ \E j \in Jobs : LiveRunReturn(j)

\* Every goroutine that can take a step does so in the end, and every
\* runJob call returns (the subprocesses terminate).  A select that is
\* reached again and again with the stop signal pending takes the exit
\* branch in the end: Go chooses among the ready branches of a select at
\* random.
FairLive ==
    /\ WF_vars(Exit)
    /\ \A j \in Jobs :
        /\ WF_vars(StartJob(j))
        /\ WF_vars(Notify(j))
        /\ WF_vars(JobBegin(j))
        /\ WF_vars(LiveCompute(j))
        /\ SF_vars(SelectExit(j))
        /\ WF_vars(LiveMonitoredReturn(j))
        /\ WF_vars(LiveRunReturn(j))

SpecLive == InitLive /\ [][NextLive]_vars /\ FairLive

\* ---- what the properties speak about ----

\* the jobs of the crontab
TabJobs == {j \in Jobs : j <= njobs}

Serial == {j \in TabJobs : ~overlapping[j]}

\* main has sent the stop signal to job j's exit channel
Delivered(j) ==
    \/ mainPc = "notify" /\ mainI > j
    \/ mainPc \in {"renotify", "wait", "exited"}

\* under SpecTwice: the second stop signal has been sent to job j's channel
SecondSent(j) ==
    \/ mainPc = "renotify" /\ mainI > j
    \/ mainPc \in {"wait", "exited"}

\* job j's loop has taken the signal out of its exit channel
Received(j) == Delivered(j) /\ exitChan[j] = 0

\* the schedule points of period p in (a, b]
PointsIn(p, a, b) == {x \in (a + 1)..b : x % p = 0}

\* the warnings of a firing that were written before its runJob call returned
InTime(f) == {i \in 1..Len(f.log) : ~f.log[i].late}

\* ---- C1 ----
\* C1: under serial policy at most one runJob call of a job is in flight in
\* every reachable state.
C1_SerialOneInFlight ==
    \A j \in Serial : InFlight(j) <= 1

\* a serial job whose third runJob call is in flight
C1_Witness ==
    \E j \in Serial : InFlight(j) = 1 /\ invoked[j] >= 3

\* ---- C2 ----
\* C2 as stated: once the stop signal has been delivered to a serial job's
\* exit channel, no runJob call of that job begins, whatever the loop was
\* doing at the delivery.
C2_NoStartAfterDelivery ==
    [][\A j \in Serial : Delivered(j) => Started(j)' = Started(j)]_vars

\* C2 amended: once a serial job's loop has taken the stop signal out of its
\* exit channel, no runJob call of that job begins.
C2_NoStartAfterReceipt ==
    [][\A j \in Serial : Received(j) => Started(j)' = Started(j)]_vars

\* a serial job that ran and then took the stop signal
C2_Witness ==
    \E j \in Serial : Received(j) /\ pc[j] = "stopped" /\ Started(j) >= 2

\* ---- C3 ----
\* C3: the process exits only when the loop of every job has returned.
C3_ExitAfterJoin ==
    mainPc = "exited" => \A j \in TabJobs : pc[j] = "stopped"

\* the process has exited with two jobs, one of which had run
C3_Witness ==
    /\ mainPc = "exited"
    /\ njobs = 2
    /\ \E j \in TabJobs : Started(j) >= 1

\* ---- C4 ----
\* C4: the iteration counter advances by one for every Executor invocation:
\* the invocations a job has made are as many as its counter says, or one
\* more while the counter is about to be advanced.
C4_CounterPerInvocation ==
    \A j \in TabJobs : invoked[j] - cronIteration[j] \in {0, 1}

\* ---- C5 ----
\* C5: whenever the runJob call of a firing has returned, with any outcome,
\* the cancel signal of the firing's monitor has been raised.
C5_CancelledOnReturn ==
    \A j \in TabJobs, k \in Iters :
        fire[j][k].st = "returned" => fire[j][k].cancelled

\* the monitored call of a job's first firing returned a start failure
C5_Witness ==
    \E j \in TabJobs :
        /\ pc[j] = "run"
        /\ cronIteration[j] = 0
        /\ err[j] = "startfail"
        /\ fire[j][0].st = "returned"
        /\ fire[j][0].cancelled

\* ---- C6 ----
\* C6 as stated: a monitor writes no warning once its runJob call has
\* returned, and when the call returns it has written one warning for each
\* schedule point that was reached while the call was in flight and none for
\* another time (the points at the very instants the call began and returned
\* may or may not count as reached during it).
C6_OneWarningPerReachedPoint ==
    [][\A j \in TabJobs, k \in Iters :
          /\ \A i \in 1..Len(fire'[j][k].log) : ~fire'[j][k].log[i].late
          /\ (fire[j][k].st = "running" /\ fire'[j][k].st = "returned")
                => LET f == fire[j][k]
                       warned == {f.log[i].pt : i \in 1..Len(f.log)}
                   IN  /\ Cardinality(warned) = Len(f.log)
                       /\ PointsIn(period[j], f.startAt, now - 1) \subseteq warned
                       /\ warned \subseteq PointsIn(period[j], f.t0, now)
      ]_vars

\* C6 amended: the warnings of a monitor are for the consecutive schedule
\* points after t0, one warning per point in schedule order with none left
\* out in between, and each is written only once its point has been reached.
C6_WarningsFollowSchedule ==
    \A j \in TabJobs, k \in Iters :
        \A i \in 1..Len(fire[j][k].log) :
            /\ fire[j][k].log[i].pt = NthNext(period[j], fire[j][k].t0, i)
            /\ fire[j][k].log[i].pt <= now

\* a monitor has written two warnings while its call was in flight
C6_Witness ==
    \E j \in TabJobs, k \in Iters :
        /\ Len(fire[j][k].log) >= 2
        /\ ~fire[j][k].log[2].late

\* ---- C7 ----
\* the first firing of job j, begun at its fire time under a schedule of
\* period 1 and serial policy, is in flight 3 time units after it began
ThreeUnitsIn(j) ==
    /\ j \in Serial
    /\ period[j] = 1
    /\ fire[j][0].st = "running"
    /\ fire[j][0].startAt = fire[j][0].t0
    /\ now = fire[j][0].startAt + 3

\* the first runJob call of job j returns in this step
FirstReturns(j) == fire[j][0].st = "running" /\ fire'[j][0].st = "returned"

C8_LoopNeverBlocked ==
    \A j \in TabJobs : overlapping[j] => pc[j] \notin {"monitored", "run"}

\* ---- C9 ----
\* C9: every runJob call that returned an error has exactly one error record.
C9_OneRecordPerFailure ==
    \A j \in TabJobs : unlogged[j] = 0

\* ---- C10 ----
\* C10: whatever a runJob call of the loop returns, the loop goes on: after
\* the monitored call it goes to run (or dispatches it), after run it
\* advances the counter and computes the next fire time.
C10_LoopSurvivesFailure ==
    [][\A j \in TabJobs :
          /\ (pc[j] = "monitored" /\ pc'[j] # "monitored")
                => pc'[j] \in {"run", "compute"}
          /\ (pc[j] = "run" /\ pc'[j] # "run")
                => /\ pc'[j] = "compute"
                   /\ cronIteration'[j] = cronIteration[j] + 1
      ]_vars

\* the first firing of a job failed and its second firing is in flight
C10_Witness ==
    \E j \in TabJobs :
        /\ err[j] \in {"startfail", "runfail"}
        /\ cronIteration[j] = 1
        /\ pc[j] = "monitored"

RECURSIVE Lines(_)
Lines(b) ==
    LET nls == {i \in 1..Len(b) : b[i] = NL}
        first == CHOOSE i \in nls : \A k \in nls : i <= k
    IN  IF b = <<>> THEN <<>>
        ELSE IF nls = {} THEN <<b>>
        ELSE <<SubSeq(b, 1, first - 1)>> \o Lines(SubSeq(b, first + 1, Len(b)))

\* the messages of the Info records of rs, in order
Infos(rs) ==
    LET inf == SelectSeq(rs, LAMBDA x : x.level = "info")
    IN  [i \in 1..Len(inf) |-> inf[i].line]

\* the Info messages of rs from record i on, where a message that is
\* followed by the buffer warning is joined with the next message; cur is
\* the part of a line collected so far and open says that there is one
RECURSIVE JoinFrom(_, _, _, _)
JoinFrom(rs, i, cur, open) ==
    IF i > Len(rs) THEN (IF open THEN <<cur>> ELSE <<>>)
    ELSE IF rs[i].level # "info" THEN JoinFrom(rs, i + 1, cur, open)
    ELSE IF i < Len(rs) /\ rs[i + 1].level = "warning"
    THEN JoinFrom(rs, i + 2, cur \o rs[i].line, TRUE)
    ELSE <<cur \o rs[i].line>> \o JoinFrom(rs, i + 1, <<>>, FALSE)

\* every record of the drain of r carries r's channel name
Tagged(r) == \A i \in 1..Len(recs[r]) : recs[r][i].channel = r

\* C12 as stated: when a drain has read its stream to the end, its Info
\* records are exactly the lines written to the stream, one record per
\* line, in order, tagged with the channel, whatever the length of a line.
C12_OneRecordPerLine ==
    \A r \in Chans :
        drain[r] = "done" => Infos(recs[r]) = Lines(written[r]) /\ Tagged(r)

\* C12 amended: when a drain has read its stream to the end, its Info
\* records, with every record that is followed by the buffer warning joined
\* to the next one, are exactly the lines written, in order and tagged with
\* the channel; when every line is shorter than the buffer there is one
\* Info record per line and no warning.
C12_RecordsJoinToLines ==
    \A r \in Chans :
        drain[r] = "done" =>
            /\ JoinFrom(recs[r], 1, <<>>, FALSE) = Lines(written[r])
            /\ Tagged(r)
            /\ (\A i \in 1..Len(Lines(written[r])) :
                    Len(Lines(written[r])[i]) < READ_BUFFER_SIZE)
               => /\ Infos(recs[r]) = Lines(written[r])
                  /\ \A i \in 1..Len(recs[r]) : recs[r][i].level # "warning"

\* both drains are done, stdout had a line longer than the buffer, which
\* was logged in two parts, and stderr had two lines
C12_Witness ==
    /\ \A r \in Chans : drain[r] = "done"
    /\ \E i \in 1..Len(Lines(written["stdout"])) :
           Len(Lines(written["stdout"])[i]) > READ_BUFFER_SIZE
    /\ Len(Infos(recs["stdout"])) = 2
    /\ Len(Infos(recs["stderr"])) = 2
    /\ Len(Lines(written["stderr"])) = 2

\* ---- C13 ----
\* the value the supervisor has for key k, 0 when it has none
SupervisorValue(k) ==
    IF \E i \in DOMAIN environ : environ[i][1] = k
    THEN environ[CHOOSE i \in DOMAIN environ : environ[i][1] = k][2]
    ELSE 0

\* C13: the started subprocess finds every override key set to the
\* override's value, whether or not the supervisor has the key, and every
\* other key as the supervisor has it.
C13_OverridesWin ==
    epc = "started" =>
        \A k \in Keys :
            childEnv[k] = IF k \in DOMAIN overrides THEN overrides[k]
                          ELSE SupervisorValue(k)

\* a subprocess started with one key overridden to another value than the
\* supervisor's and another key that only the supervisor has
C13_Witness ==
    /\ epc = "started"
    /\ \E k \in DOMAIN overrides :
           SupervisorValue(k) # 0 /\ SupervisorValue(k) # overrides[k]
    /\ \E k \in Keys \ DOMAIN overrides : SupervisorValue(k) # 0

\* ---- C14 ----
\* C14: the shutdown join does not cover detached invocations: once the
\* stop signal was delivered and every loop is Stopped, main's wait is over
\* and the process can exit, whatever go run(i) invocations are in flight.
C14_JoinCoversLoopsOnly ==
    (mainPc = "wait" /\ \A j \in TabJobs : pc[j] = "stopped") => ENABLED Exit

\* the process has exited with every loop Stopped while a detached runJob
\* call of a job under concurrent policy is in flight
C14_Witness ==
    /\ mainPc = "exited"
    /\ \A j \in TabJobs : Delivered(j) /\ pc[j] = "stopped"
    /\ \E j \in TabJobs : overlapping[j] /\ detached[j] # {}

\* ---- C15 ----
\* C15: under serial policy a pass of the loop that finds the next fire time
\* already past starts no runJob call, logs one "took too long" warning and
\* sets nextRun to now, from where the next pass computes again; a pass that
\* goes on to the select has a fire time that is not past, the firing uses
\* that fire time, and it is never before the start of the job's previous
\* firing (no backlog).
C15_SkipAndResync ==
    [][\A j \in Serial :
        LET nr == ExprNext(period[j], nextRun[j])
            k == cronIteration[j]
        IN  /\ (pc[j] = "compute" /\
                <<nextRun[j], pc[j], skipWarns[j]>>' # <<nextRun[j], pc[j], skipWarns[j]>>)
               => IF nr < now
                  THEN /\ skipWarns'[j] = skipWarns[j] + 1
                       /\ nextRun'[j] = now
                       /\ pc'[j] = "compute"
                       /\ invoked'[j] = invoked[j]
                  ELSE /\ skipWarns'[j] = skipWarns[j]
                       /\ nextRun'[j] = nr
                       /\ pc'[j] = "select"
            /\ (pc[j] = "select" /\ pc'[j] = "monitored")
               => /\ fire'[j][k].t0 = nextRun[j]
                  /\ k >= 1 => nextRun[j] >= fire[j][k - 1].startAt]_vars

\* a serial job that ran past a schedule point, warned once, and fired
\* again at a later point than the one that follows its first fire time
C15_Witness ==
    \E j \in Serial :
        /\ skipWarns[j] = 1
        /\ fire[j][1].st # "none"
        /\ fire[j][1].t0 > ExprNext(period[j], fire[j][0].t0)

\* ---- C16 ----
\* the firings of job j whose monitorJob goroutine is running and whose
\* context is not cancelled
Monitored(j) ==
    {k \in Iters : /\ fire[j][k].st = "running"
                   /\ fire[j][k].alive
                   /\ ~fire[j][k].cancelled}

\* C16 as stated: every runJob call in flight has its own active monitor,
\* started for it with t0 = its fire time: a job never has more runJob calls
\* in flight than monitors that are running uncancelled.
C16_EveryCallMonitored ==
    \A j \in TabJobs : InFlight(j) <= Cardinality(Monitored(j))

\* ---- C17 ----
\* C17 as stated: once the closure's runJob call has returned and cancel()
\* has run, the firing's monitor writes no further warning, also when its
\* timer is ready together with the cancellation.
C17_NoWarningAfterCancel ==
    [][\A j \in TabJobs, k \in Iters :
        fire[j][k].cancelled => fire'[j][k].log = fire[j][k].log]_vars

\* C17 amended: after cancel() a monitor writes a warning only from a select
\* in which its timer is ready as well, for the schedule point that timer
\* stands for; a monitor that has taken the ctx.Done() branch writes nothing.
C17_LateWarningNeedsReadyTimer ==
    [][\A j \in TabJobs, k \in Iters :
        (fire[j][k].cancelled /\ fire'[j][k].log # fire[j][k].log) =>
            /\ fire[j][k].alive
            /\ now >= fire[j][k].t
            /\ fire'[j][k].log =
                   Append(fire[j][k].log, [pt |-> fire[j][k].t, late |-> TRUE])]_vars

\* a monitor that warned after its context was cancelled and then returned
C17_Witness ==
    \E j \in TabJobs, k \in Iters :
        /\ ~fire[j][k].alive
        /\ \E i \in 1..Len(fire[j][k].log) : fire[j][k].log[i].late

\* ---- C18 ----
\* C18: when the subprocess was started, runJob waits for it, and returns,
\* only after both drains have called wg.Done(), it returns only after the
\* subprocess has terminated, and it returns nil exactly when the exit
\* status is zero; when a pipe or the start failed it returns an error and
\* no drain was started.
C18_ReturnsAfterDrainsAndExit ==
    /\ rpc = "cmdwait" =>
           \A r \in Chans : drain[r] \in {"done", "failed"}
    /\ rpc = "returned" =>
           IF proc # "none"
           THEN /\ \A r \in Chans : drain[r] \in {"done", "failed"}
                /\ proc = "exited"
                /\ ret = "nil" <=> exitStatus = "zero"
                /\ ret \in {"nil", "err"}
           ELSE /\ ret = "err"
                /\ \A r \in Chans : drain[r] = "none" /\ recs[r] = <<>>

\* runJob returned nil for a subprocess that wrote to both streams, ended
\* with status zero, and whose drains logged every line
C18_Witness ==
    /\ rpc = "returned"
    /\ ret = "nil"
    /\ exitStatus = "zero"
    /\ \A r \in Chans :
           /\ drain[r] = "done"
           /\ written[r] # <<>>
           /\ Infos(recs[r]) = Lines(written[r])

\* ---- C20 ----
\* C20: under concurrent policy a pass of the loop never takes the skip
\* branch, also when the next fire time is already past: it moves nextRun on
\* by one schedule point and goes to the select, with no warning; every
\* firing uses that fire time, which is the schedule point that follows the
\* fire time of the job's previous firing.
C20_BacklogIsExecuted ==
    [][\A j \in TabJobs :
        LET nr == ExprNext(period[j], nextRun[j])
            k == cronIteration[j]
        IN  overlapping[j] =>
            /\ (pc[j] = "compute" /\
                <<nextRun[j], pc[j], skipWarns[j]>>' # <<nextRun[j], pc[j], skipWarns[j]>>)
               => /\ skipWarns'[j] = skipWarns[j]
                  /\ nextRun'[j] = nr
                  /\ pc'[j] = "select"
            /\ (pc[j] = "select" /\ pc'[j] = "monitored")
               => /\ fire'[j][k].t0 = nextRun[j]
                  /\ k >= 1 => nextRun[j] = ExprNext(period[j], fire[j][k - 1].t0)]_vars

\* a job under concurrent policy whose first firing started after its
\* second fire time had passed, and whose second firing was made for that
\* past fire time all the same
C20_Witness ==
    \E j \in TabJobs :
        /\ overlapping[j]
        /\ fire[j][1].st # "none"
        /\ fire[j][1].t0 < fire[j][0].startAt
        /\ skipWarns[j] = 0

\* ---- C19 ----
\* C19 as stated: once the stop signal has been sent to every exit channel,
\* every loop reaches Stopped and the process exits.
C19_ShutdownCompletes ==
    (mainPc = "wait") ~> (mainPc = "exited" /\ \A j \in TabJobs : pc[j] = "stopped")

\* C19 amended: once the stop signal has been sent to every exit channel,
\* every loop reaches Stopped and the process exits, unless some loop from
\* some time on only skips and recomputes, never reaching its select.
C19_ShutdownCompletesUnlessSkipping ==
    \/ \E j \in Jobs : <>[](j \in Serial /\ pc[j] = "compute")
    \/ C19_ShutdownCompletes

\* the process has exited with a serial and a concurrent job both Stopped,
\* after the clock has run through its window
C19_Witness ==
    /\ mainPc = "exited"
    /\ now = LiveTime
    /\ \E j \in TabJobs : overlapping[j] /\ pc[j] = "stopped"
    /\ \E j \in TabJobs : ~overlapping[j] /\ pc[j] = "stopped"

====
